---- MODULE Spec2Model ----
(***************************************************************************)
(* A model of the Garmin training pipeline: the retry wrapper around the   *)
(* garmindb CLI (src/src/garmin_client.py), the LLM revision proposal      *)
(* (src/src/llm.py), the patch-and-push sequence                           *)
(* (src/src/planner_interface.py), the settings loader                     *)
(* (src/src/settings.py), the training-load and HRV analytics              *)
(* (src/src/analytics.py), the DuckDB writes (src/src/storage.py) and the  *)
(* daily and weekly flows (src/dags/flows.py).                             *)
(*                                                                         *)
(* One behaviour is one invocation of one entry point (variable op), from  *)
(* a state of the file system and the database the program can start in.  *)
(* Python values are modelled by tagged records; floats by exact           *)
(* rationals <<numerator, denominator>> with a positive denominator.       *)
(***************************************************************************)
EXTENDS Integers, Sequences, FiniteSets, TLC

VARIABLES
    op,           \* the entry point this behaviour invokes
    log,          \* monitoring.log_event: the sequence of event names logged
    \* ---- planner_interface.patch_and_push
    pp_pc,        \* position in patch_and_push
    pp_diff,      \* its argument: the diff string
    fs_current,   \* content of plans/current_plan.yaml
    fs_current0,  \* content of plans/current_plan.yaml when the call started
    fs_patched,   \* content of plans/patched_plan.yaml
    pp_plan,      \* local current_plan
    pp_patched,   \* local patched_plan
    planner_calls, \* number of subprocess.run calls of garmin_planner
    \* ---- garmin_client.retry around get_activities / get_hrv
    rt_pc,        \* position in the wrapper
    rt_fn,        \* the wrapped function
    rt_args,      \* the decorator's arguments tries and delay
    rt_tries,     \* _tries
    rt_delay,     \* _delay
    rt_outcomes,  \* what the CLI did in each execution of the wrapped function
    rt_sleeps,    \* the arguments of the time.sleep calls, in order
    rt_result,    \* the value the wrapper returned
    \* ---- llm.propose_revision
    pr_pc,        \* position in propose_revision
    pr_key,       \* whether settings.openai_api_key is set
    pr_reply,     \* what the chat completion call did
    pr_result,    \* the string propose_revision returned
    \* ---- settings.load_settings
    ls_pc,        \* position in load_settings
    ls_files,     \* the YAML files under config/
    ls_environ,   \* the GARMIN_PIPELINE_ environment variables
    ls_env,       \* the env argument
    ls_settings,  \* the Settings object returned
    \* ---- flows.adapt_weekly
    aw_pc,        \* position in adapt_weekly
    db_table,     \* the raw_activities table of data/garmin.duckdb
    aw_df,        \* local df
    aw_metrics,   \* local ctl_atl_metrics
    \* ---- analytics.evaluate_flags
    ef_pc,        \* position of the evaluate_flags call
    ef_metrics,   \* its metrics argument
    ef_settings,  \* its settings argument
    ef_flags,     \* the flags it returned
    \* ---- storage.write_df, two concurrent calls
    wd_pc,        \* position of each call in write_df
    wd_df,        \* the rows of the DataFrame each call was given
    db_conns,     \* the calls that hold an open connection to the database
    db_table0,    \* the raw_activities table when the calls started
    \* ---- flows.sync_daily
    sd_pc,        \* position in sync_daily
    sd_tasks,     \* the functions the flow has invoked as tasks, in order
    \* ---- analytics.compute_hrv_zscore
    hz_pc,        \* position of the compute_hrv_zscore call
    hz_data,      \* its hrv_data argument
    hz_result     \* the value it returned

pp_vars == <<pp_pc, pp_diff, fs_current, fs_current0, fs_patched, pp_plan,
             pp_patched, planner_calls>>
rt_vars == <<rt_pc, rt_fn, rt_args, rt_tries, rt_delay, rt_outcomes, rt_sleeps, rt_result>>
pr_vars == <<pr_pc, pr_key, pr_reply, pr_result>>
ls_vars == <<ls_pc, ls_files, ls_environ, ls_env, ls_settings>>
aw_vars == <<aw_pc, db_table, aw_df, aw_metrics>>
ef_vars == <<ef_pc, ef_metrics, ef_settings, ef_flags>>
wd_vars == <<wd_pc, wd_df, db_conns, db_table0>>
sd_vars == <<sd_pc, sd_tasks>>
hz_vars == <<hz_pc, hz_data, hz_result>>

vars == <<op, log, pp_vars, rt_vars, pr_vars, ls_vars, aw_vars, ef_vars,
          wd_vars, sd_vars, hz_vars>>

\* What the actions of one entry point leave alone (log apart).
non_pp == <<op, rt_vars, pr_vars, ls_vars, aw_vars, ef_vars,
           wd_vars, sd_vars, hz_vars>>
non_rt == <<op, pp_vars, pr_vars, ls_vars, aw_vars, ef_vars,
           wd_vars, sd_vars, hz_vars>>
non_pr == <<op, pp_vars, rt_vars, ls_vars, aw_vars, ef_vars,
           wd_vars, sd_vars, hz_vars>>
non_ls == <<op, pp_vars, rt_vars, pr_vars, aw_vars, ef_vars,
           wd_vars, sd_vars, hz_vars>>
non_aw == <<op, pp_vars, rt_vars, pr_vars, ls_vars, ef_vars,
           wd_vars, sd_vars, hz_vars>>
non_ef == <<op, pp_vars, rt_vars, pr_vars, ls_vars, aw_vars,
           wd_vars, sd_vars, hz_vars>>
\* write_df changes db_table, and sync_daily runs the retry wrapper
non_wd == <<op, pp_vars, rt_vars, pr_vars, ls_vars, aw_pc, aw_df, aw_metrics, ef_vars,
            sd_vars, hz_vars>>
non_sd == <<op, pp_vars, pr_vars, ls_vars, aw_vars, ef_vars, wd_vars, hz_vars>>
non_hz == <<op, pp_vars, rt_vars, pr_vars, ls_vars, aw_vars, ef_vars, wd_vars, sd_vars>>

----------------------------------------------------------------------------
(* Bounds of the model *)

\* longest JSON Patch (number of operations) that is explored
MaxOps == 2

----------------------------------------------------------------------------
(* Plan documents, files and JSON Patch *)

Keys == {"a", "b"}
Vals == {1, 2}

\* A plan document: a mapping with some of the keys.
Docs == UNION {[D -> Vals] : D \in SUBSET Keys}
EmptyDoc == [k \in {} |-> 1]

\* File contents.  A file is absent, holds text that is not valid YAML (or a
\* write that was cut short), or holds the YAML text of a document.
Absent == [state |-> "absent", doc |-> EmptyDoc]
Corrupt == [state |-> "corrupt", doc |-> EmptyDoc]

\* yaml.dump(doc, f): the YAML text of doc.
YamlDump(doc) == [state |-> "yaml", doc |-> doc]

\* yaml.safe_load(f): the document of a YAML text; raises on anything else.
YamlLoad(content) ==
    IF content.state = "yaml"
    THEN [raised |-> FALSE, doc |-> content.doc]
    ELSE [raised |-> TRUE, doc |-> EmptyDoc]

\* One RFC 6902 operation on a top-level key (value 0: no value member).
Ops == [op : {"add", "replace"}, path : Keys, value : Vals]
       \cup [op : {"remove"}, path : Keys, value : {0}]

RECURSIVE SeqsUpTo(_, _)
SeqsUpTo(S, n) ==
    IF n = 0 THEN {<<>>}
    ELSE LET shorter == SeqsUpTo(S, n - 1)
         IN shorter \cup {Append(s, x) : s \in {t \in shorter : Len(t) = n - 1}, x \in S}

Patches == SeqsUpTo(Ops, MaxOps)

\* A string that is meant to hold a JSON Patch: the empty string, other text
\* that is not JSON, JSON that is no list of operations, or the JSON text of
\* a list of operations ("[]" is JsonText(<<>>)).
JsonText(ops) == [kind |-> "patch", ops |-> ops]
EmptyString == [kind |-> "empty", ops |-> <<>>]
NotJson == [kind |-> "invalid", ops |-> <<>>]
NotPatch == [kind |-> "notpatch", ops |-> <<>>]
Diffs == {EmptyString, NotJson, NotPatch} \cup {JsonText(p) : p \in Patches}

\* jsonpatch: one operation applied to a document.
ApplyOp(doc, o) ==
    CASE o.op = "add" ->
            [ok |-> TRUE,
             doc |-> [k \in DOMAIN doc \cup {o.path} |->
                        IF k = o.path THEN o.value ELSE doc[k]]]
      [] o.op = "replace" ->
            IF o.path \in DOMAIN doc
            THEN [ok |-> TRUE, doc |-> [doc EXCEPT ![o.path] = o.value]]
            ELSE [ok |-> FALSE, doc |-> doc]
      [] o.op = "remove" ->
            IF o.path \in DOMAIN doc
            THEN [ok |-> TRUE, doc |-> [k \in DOMAIN doc \ {o.path} |-> doc[k]]]
            ELSE [ok |-> FALSE, doc |-> doc]

\* jsonpatch.apply_patch(doc, patch): the operations in order; the first one
\* that fails raises JsonPatchException.
RECURSIVE ApplyPatch(_, _)
ApplyPatch(doc, ops) ==
    IF ops = <<>> THEN [ok |-> TRUE, doc |-> doc]
    ELSE LET r == ApplyOp(doc, Head(ops))
         IN IF r.ok THEN ApplyPatch(r.doc, Tail(ops)) ELSE [ok |-> FALSE, doc |-> doc]

\* The plans/current_plan.yaml a call can find.
InitialPlans ==
    {Absent, Corrupt, YamlDump(EmptyDoc), YamlDump([k \in {"a"} |-> 1]),
     YamlDump([k \in Keys |-> IF k = "a" THEN 1 ELSE 2])}

----------------------------------------------------------------------------
(* planner_interface.patch_and_push *)

Log(events) == log' = log \o events

\* Where patch_and_push goes after os.makedirs(plan_dir, exist_ok=True).
AfterMakedirs(ok) == IF ok THEN "load" ELSE "raised"

\* Where patch_and_push goes after the write of patched_plan.yaml.
AfterSaveNoReturn(ok) == "run"
AfterSave(ok) == IF ok THEN "run" ELSE "returned"

\* log_event("planner_patch_and_push_start"), the paths.
PP_Call ==
    /\ op = "patch_and_push" /\ pp_pc = "idle"
    /\ \E diff \in Diffs :
         /\ pp_diff' = diff
         /\ pp_pc' = "makedirs"
         /\ Log(<<"planner_patch_and_push_start">>)
         /\ UNCHANGED <<fs_current, fs_current0, fs_patched, pp_plan, pp_patched, planner_calls>>
         /\ UNCHANGED non_pp

\* os.makedirs(plan_dir, exist_ok=True), outside every try block: an OSError
\* (plans is a file, the directory cannot be created) leaves the function.
PP_Makedirs ==
    /\ pp_pc = "makedirs"
    /\ \E ok \in BOOLEAN : pp_pc' = AfterMakedirs(ok)
    /\ UNCHANGED <<log, pp_diff, fs_current, fs_current0, fs_patched, pp_plan,
                   pp_patched, planner_calls>>
    /\ UNCHANGED non_pp

\* try: open(current_plan_path); yaml.safe_load(f) or {}
\* FileNotFoundError and every other exception continue with an empty plan.
PP_Load ==
    /\ pp_pc = "load"
    /\ IF fs_current.state = "absent"
       THEN /\ pp_plan' = EmptyDoc
            /\ Log(<<"planner_current_plan_not_found">>)
       ELSE \E io_ok \in BOOLEAN :
              LET r == YamlLoad(fs_current)
              IN IF io_ok /\ ~r.raised
                 THEN /\ pp_plan' = r.doc
                      /\ Log(<<"planner_current_plan_loaded">>)
                 ELSE /\ pp_plan' = EmptyDoc
                      /\ Log(<<"planner_current_plan_load_error">>)
    /\ pp_pc' = "apply"
    /\ UNCHANGED <<pp_diff, fs_current, fs_current0, fs_patched, pp_patched, planner_calls>>
    /\ UNCHANGED non_pp

\* try: patch = json.loads(diff); patched_plan = jsonpatch.apply_patch(...)
PP_Apply ==
    /\ pp_pc = "apply"
    /\ CASE pp_diff.kind \in {"empty", "invalid"} ->
              /\ Log(<<"planner_diff_json_decode_error", "planner_patch_and_push_end">>)
              /\ pp_pc' = "returned"
              /\ UNCHANGED pp_patched
         [] pp_diff.kind = "notpatch" ->
              /\ \E e \in {"planner_patch_application_failed",
                           "planner_patch_application_exception"} :
                    Log(<<e, "planner_patch_and_push_end">>)
              /\ pp_pc' = "returned"
              /\ UNCHANGED pp_patched
         [] pp_diff.kind = "patch" ->
              LET r == ApplyPatch(pp_plan, pp_diff.ops)
              IN IF r.ok
                 THEN /\ pp_patched' = r.doc
                      /\ Log(<<"planner_patch_applied">>)
                      /\ pp_pc' = "save"
                 ELSE /\ Log(<<"planner_patch_application_failed",
                               "planner_patch_and_push_end">>)
                      /\ pp_pc' = "returned"
                      /\ UNCHANGED pp_patched
    /\ UNCHANGED <<pp_diff, fs_current, fs_current0, fs_patched, pp_plan, planner_calls>>
    /\ UNCHANGED non_pp

\* try: open(patched_plan_path, 'w'); yaml.dump(patched_plan, f)
\* A failed write leaves the file as it was or cut short.
PP_Save ==
    /\ pp_pc = "save"
    /\ \E ok \in BOOLEAN :
         /\ pp_pc' = AfterSave(ok)
         /\ IF ok
            THEN /\ fs_patched' = YamlDump(pp_patched)
                 /\ Log(<<"planner_patched_plan_saved">>)
            ELSE /\ fs_patched' \in {fs_patched, Corrupt}
                 /\ Log(<<"planner_patched_plan_save_error", "planner_patch_and_push_end">>)
    /\ UNCHANGED <<pp_diff, fs_current, fs_current0, pp_plan, pp_patched, planner_calls>>
    /\ UNCHANGED non_pp

\* subprocess.run(["garmin_planner", "push", "--plan", patched_plan_path])
PP_Run ==
    /\ pp_pc = "run"
    /\ planner_calls' = planner_calls + 1
    /\ \E outcome \in {"zero", "nonzero", "not_found", "exception"} :
         CASE outcome = "zero" ->
                /\ Log(<<"planner_subprocess_command", "planner_subprocess_succeeded">>)
                /\ pp_pc' = "copy"
           [] outcome = "nonzero" ->
                /\ Log(<<"planner_subprocess_command", "planner_subprocess_failed",
                         "planner_patch_and_push_end">>)
                /\ pp_pc' = "returned"
           [] outcome = "not_found" ->
                /\ Log(<<"planner_subprocess_command", "planner_garmin_planner_not_found",
                         "planner_patch_and_push_end">>)
                /\ pp_pc' = "returned"
           [] outcome = "exception" ->
                /\ Log(<<"planner_subprocess_command", "planner_subprocess_exception",
                         "planner_patch_and_push_end">>)
                /\ pp_pc' = "returned"
    /\ UNCHANGED <<pp_diff, fs_current, fs_current0, fs_patched, pp_plan, pp_patched>>
    /\ UNCHANGED non_pp

\* try: shutil.copyfile(patched_plan_path, current_plan_path)
\* A failed copy leaves the target as it was or cut short.
PP_Copy ==
    /\ pp_pc = "copy"
    /\ \E ok \in BOOLEAN :
         IF ok
         THEN /\ fs_current' = fs_patched
              /\ Log(<<"planner_local_cache_updated", "planner_patch_and_push_end">>)
         ELSE /\ fs_current' \in {fs_current, Corrupt}
              /\ Log(<<"planner_local_cache_update_error", "planner_patch_and_push_end">>)
    /\ pp_pc' = "returned"
    /\ UNCHANGED <<pp_diff, fs_current0, fs_patched, pp_plan, pp_patched, planner_calls>>
    /\ UNCHANGED non_pp

----------------------------------------------------------------------------
(* garmin_client: _run_garmindb_cli, get_activities / get_hrv, retry *)

\* retry(tries=3, delay=5): the defaults that @retry() uses.
Tries == 3
Delay == 5

\* most tries of a decoration retry(tries, delay) that is explored
MaxTries == 4

\* The functions the module decorates with @retry().
Fetchers == {"get_activities", "get_hrv"}

\* The arguments of retry(tries, delay) applied to a function func.
RetryArgs == [tries : 1..MaxTries, delay : {1, Delay}]

\* Python values the wrapped function can return (items: len of a list or a
\* dict; returncode: the value of a "returncode" key, -1 when there is none).
PyNone == [type |-> "None", items |-> 0, returncode |-> -1]
PyList(n) == [type |-> "list", items |-> n, returncode |-> -1]
PyDict(n, rc) == [type |-> "dict", items |-> n, returncode |-> rc]

\* What one run of "python garmindb_cli.py fetch ..." can do: the command is
\* not found, subprocess.run raises, the exit code is not 0, or the exit code
\* is 0 and stdout is not JSON / a JSON scalar / a JSON array / a JSON object.
CliOutcomes ==
    {"not_found", "exception", "nonzero", "bad_json", "json_scalar",
     "json_empty_list", "json_list", "json_empty_object", "json_object",
     "json_object_returncode_0"}

\* _run_garmindb_cli: a dict with the return code, or None.
RunGarmindbCli(cli) ==
    IF cli \in {"not_found", "exception"} THEN PyNone
    ELSE PyDict(3, IF cli = "nonzero" THEN 1 ELSE 0)

\* json.loads(result["stdout"]) for an exit code of 0.
JsonLoads(cli) ==
    CASE cli = "bad_json" -> [raised |-> TRUE, value |-> PyNone, sized |-> FALSE]
      [] cli = "json_scalar" -> [raised |-> FALSE, value |-> PyNone, sized |-> FALSE]
      [] cli = "json_empty_list" -> [raised |-> FALSE, value |-> PyList(0), sized |-> TRUE]
      [] cli = "json_list" -> [raised |-> FALSE, value |-> PyList(1), sized |-> TRUE]
      [] cli = "json_empty_object" -> [raised |-> FALSE, value |-> PyDict(0, -1), sized |-> TRUE]
      [] cli = "json_object" -> [raised |-> FALSE, value |-> PyDict(1, -1), sized |-> TRUE]
      [] cli = "json_object_returncode_0" ->
            [raised |-> FALSE, value |-> PyDict(1, 0), sized |-> TRUE]

\* The body of get_activities / get_hrv for one CLI run: the parsed stdout,
\* None on failure; len() of a parsed scalar raises TypeError, which only
\* "except json.JSONDecodeError" guards.
Fetch(cli) ==
    LET result == RunGarmindbCli(cli)
    IN IF result.type = "dict" /\ result.returncode = 0
       THEN LET parsed == JsonLoads(cli)
            IN CASE parsed.raised -> [raised |-> FALSE, value |-> PyNone]
                 [] ~parsed.raised /\ ~parsed.sized -> [raised |-> TRUE, value |-> PyNone]
                 [] OTHER -> [raised |-> FALSE, value |-> parsed.value]
       ELSE [raised |-> FALSE, value |-> PyNone]

\* The events one execution of the wrapped function logs.
FetchEvents(fn, cli) ==
    <<IF fn = "get_activities" THEN "garmin_client_get_activities_start"
      ELSE "garmin_client_get_hrv_start",
      "garmin_client_subprocess_command">>
    \o (CASE cli = "not_found" -> <<"garmin_client_garmindb_cli_not_found">>
          [] cli = "exception" -> <<"garmin_client_subprocess_exception">>
          [] OTHER -> <<"garmin_client_subprocess_completed">>)
    \o (CASE cli \in {"not_found", "exception", "nonzero"} ->
                <<IF fn = "get_activities" THEN "garmin_client_get_activities_failed"
                  ELSE "garmin_client_get_hrv_failed">>
          [] cli = "bad_json" ->
                <<IF fn = "get_activities"
                  THEN "garmin_client_get_activities_json_decode_error"
                  ELSE "garmin_client_get_hrv_json_decode_error">>
          [] cli = "json_scalar" -> <<>>
          [] OTHER ->
                <<IF fn = "get_activities" THEN "garmin_client_get_activities_success"
                  ELSE "garmin_client_get_hrv_success">>)

\* Python truth value of a returned value.
Truthy(v) == v.type # "None" /\ v.items > 0

\* The wrapper's test "result and result.get("returncode", -1) == 0":
\* a list has no get method, so a non-empty list raises AttributeError.
WrapperTest(v) ==
    IF ~Truthy(v) THEN "retry"
    ELSE IF v.type # "dict" THEN "raise"
    ELSE IF v.returncode = 0 THEN "return" ELSE "retry"

\* What the wrapped function logs: func stands for any function that
\* returns what a fetch returns and logs nothing.
Events(fn, cli) == IF fn \in Fetchers THEN FetchEvents(fn, cli) ELSE <<>>

\* "_delay *= 2 # Exponential backoff"
BackoffConstant(d) == d
Backoff(d) == d * 2

\* The loop condition "while _tries > 1".
WhileTriesOffByOne(t) == t > 0
WhileTries(t) == t > 1

\* wrapper(*args, **kwargs): _tries, _delay = tries, delay
RT_Call ==
    /\ op = "garmin_client" /\ rt_pc = "idle"
    /\ \E fn \in Fetchers :
         /\ rt_fn' = fn
         /\ rt_args' = [tries |-> Tries, delay |-> Delay]
         /\ rt_tries' = Tries
         /\ rt_delay' = Delay
         /\ rt_pc' = "loop"
         /\ UNCHANGED <<log, rt_outcomes, rt_sleeps, rt_result>>
         /\ UNCHANGED non_rt

\* The wrapper of retry(tries, delay)(func):
\* _tries, _delay = tries, delay
RT_CallFunc ==
    /\ op = "retry" /\ rt_pc = "idle"
    /\ \E args \in RetryArgs :
         /\ rt_fn' = "func"
         /\ rt_args' = args
         /\ rt_tries' = args.tries
         /\ rt_delay' = args.delay
         /\ rt_pc' = "loop"
         /\ UNCHANGED <<log, rt_outcomes, rt_sleeps, rt_result>>
         /\ UNCHANGED non_rt

\* One iteration of the while loop: run the function, test its result, and
\* on a retry log, sleep, count down and double the delay.
RT_Attempt ==
    /\ rt_pc = "loop" /\ WhileTries(rt_tries)
    /\ \E cli \in CliOutcomes :
         LET r == Fetch(cli)
             t == IF r.raised THEN "raise" ELSE WrapperTest(r.value)
         IN /\ rt_outcomes' = Append(rt_outcomes, cli)
            /\ CASE t = "raise" ->
                      /\ rt_pc' = "raised"
                      /\ log' = log \o Events(rt_fn, cli)
                      /\ UNCHANGED <<rt_tries, rt_delay, rt_sleeps, rt_result>>
                 [] t = "return" ->
                      /\ rt_pc' = "returned"
                      /\ rt_result' = r.value
                      /\ log' = log \o Events(rt_fn, cli)
                      /\ UNCHANGED <<rt_tries, rt_delay, rt_sleeps>>
                 [] t = "retry" ->
                      /\ log' = log \o Events(rt_fn, cli) \o <<"garmin_client_retry_attempt">>
                      /\ rt_sleeps' = Append(rt_sleeps, rt_delay)
                      /\ rt_tries' = rt_tries - 1
                      /\ rt_delay' = Backoff(rt_delay)
                      /\ UNCHANGED <<rt_pc, rt_result>>
    /\ UNCHANGED <<rt_fn, rt_args>>
    /\ UNCHANGED non_rt

\* "return func(*args, **kwargs)  # Last attempt": whatever it returns.
RT_Last ==
    /\ rt_pc = "loop" /\ ~WhileTries(rt_tries)
    /\ \E cli \in CliOutcomes :
         LET r == Fetch(cli)
         IN /\ rt_outcomes' = Append(rt_outcomes, cli)
            /\ log' = log \o Events(rt_fn, cli)
            /\ IF r.raised
               THEN rt_pc' = "raised" /\ UNCHANGED rt_result
               ELSE rt_pc' = "returned" /\ rt_result' = r.value
    /\ UNCHANGED <<rt_fn, rt_args, rt_tries, rt_delay, rt_sleeps>>
    /\ UNCHANGED non_rt

----------------------------------------------------------------------------
(* llm.propose_revision *)

\* What client.chat.completions.create can do: raise, or reply with content
\* that is not JSON, JSON that is no object, an object without "revision",
\* an object whose revision holds a malformed operation, or an object whose
\* revision is a list of well-formed operations.
Replies ==
    {[kind |-> k, ops |-> <<>>] :
        k \in {"api_error", "not_json", "json_not_object", "no_revision", "bad_operation"}}
    \cup {[kind |-> "revision", ops |-> p] : p \in Patches}

\* TrainingPlanRevision(**llm_output_json).revision: the operations as
\* JsonPatchOperation instances.
JsonPatchOperation(o) == [cls |-> "JsonPatchOperation", op |-> o.op, path |-> o.path,
                          value |-> o.value]
Validated(ops) == [i \in 1..Len(ops) |-> JsonPatchOperation(ops[i])]

\* json.dumps of a list: the JSON text of a list of dicts; an element that is
\* an instance of a pydantic model is not JSON serializable (TypeError).
JsonDumps(list) ==
    IF \E i \in 1..Len(list) : list[i].cls # "dict"
    THEN [raised |-> TRUE, text |-> EmptyString]
    ELSE [raised |-> FALSE,
          text |-> JsonText([i \in 1..Len(list) |->
                      [op |-> list[i].op, path |-> list[i].path, value |-> list[i].value]])]

\* The string every failure branch returns.
FailureValue == JsonText(<<>>)

\* propose_revision(current_plan_yaml, flags, settings), after the start
\* event: the value returned and the events logged.
propose_revision(key, reply) ==
    IF ~key
    THEN [value |-> FailureValue, events |-> <<"llm_propose_revision_error">>]
    ELSE CASE reply.kind = "api_error" ->
                [value |-> FailureValue, events |-> <<"llm_propose_revision_api_error">>]
           [] reply.kind = "not_json" ->
                [value |-> FailureValue,
                 events |-> <<"llm_propose_revision_response_received",
                              "llm_propose_revision_json_decode_error">>]
           [] reply.kind = "json_not_object" ->
                \* TrainingPlanRevision(**x) of a list or scalar: TypeError,
                \* caught by the outer "except Exception"
                [value |-> FailureValue,
                 events |-> <<"llm_propose_revision_response_received",
                              "llm_propose_revision_api_error">>]
           [] reply.kind \in {"no_revision", "bad_operation"} ->
                [value |-> FailureValue,
                 events |-> <<"llm_propose_revision_response_received",
                              "llm_propose_revision_validation_error">>]
           [] reply.kind = "revision" ->
                LET dumped == JsonDumps(Validated(reply.ops))
                IN IF dumped.raised
                   THEN [value |-> FailureValue,
                         events |-> <<"llm_propose_revision_response_received",
                                      "llm_propose_revision_api_error">>]
                   ELSE [value |-> dumped.text,
                         events |-> <<"llm_propose_revision_response_received",
                                      "llm_propose_revision_success">>]

\* log_event("llm_propose_revision_start", ...)
PR_Call ==
    /\ op = "propose_revision" /\ pr_pc = "idle"
    /\ \E key \in BOOLEAN, reply \in Replies :
         /\ pr_key' = key
         /\ pr_reply' = reply
         /\ pr_pc' = "called"
         /\ Log(<<"llm_propose_revision_start">>)
         /\ UNCHANGED pr_result
         /\ UNCHANGED non_pr

\* The rest of the body, to its return statement.
PR_Return ==
    /\ pr_pc = "called"
    /\ LET r == propose_revision(pr_key, pr_reply)
       IN /\ pr_result' = r.value
          /\ Log(r.events)
    /\ pr_pc' = "returned"
    /\ UNCHANGED <<pr_key, pr_reply>>
    /\ UNCHANGED non_pr

----------------------------------------------------------------------------
(* settings.load_settings *)

SettingNames == {"sleep_min_hours", "hrv_drop_zscore"}
SettingVals == {2, 8}

\* The Field(default=...) of the two settings.
Defaults == [k \in SettingNames |-> IF k = "sleep_min_hours" THEN 6 ELSE -1]

\* A mapping that sets some of the settings: the content of a YAML file, the
\* GARMIN_PIPELINE_ variables of the environment.
Mappings == UNION {[D -> SettingVals] : D \in SUBSET SettingNames}
EmptyMap == [k \in {} |-> 2]

ConfigFile(state, map) == [state |-> state, map |-> map]
ConfigContents ==
    {ConfigFile("absent", EmptyMap), ConfigFile("corrupt", EmptyMap)}
    \cup {ConfigFile("yaml", m) : m \in Mappings}

\* The files load_settings can read: config/<name>.yaml.
ConfigNames == {"default", "user_goals", "staging"}

\* dict.update
Update(d, e) == [k \in DOMAIN d \cup DOMAIN e |-> IF k \in DOMAIN e THEN e[k] ELSE d[k]]

\* The list settings_files: default.yaml, user_goals.yaml and, for an env
\* whose file exists, config/<env>.yaml.
SettingsFiles(files, env) ==
    <<"default", "user_goals">>
    \o (IF env # "None" /\ files[env].state # "absent" THEN <<env>> ELSE <<>>)

\* The loop over settings_files: a missing or invalid file is skipped, the
\* content of every other one updates settings_dict.
RECURSIVE SettingsDict(_, _, _)
SettingsDict(files, names, acc) ==
    IF names = <<>> THEN acc
    ELSE LET f == files[Head(names)]
         IN SettingsDict(files, Tail(names),
                         IF f.state = "yaml" THEN Update(acc, f.map) ELSE acc)

\* Settings(**settings_dict) of pydantic BaseSettings: for each field the
\* keyword argument, else the environment variable, else the default.
Settings(init, environ) ==
    [k \in SettingNames |->
        IF k \in DOMAIN init THEN init[k]
        ELSE IF k \in DOMAIN environ THEN environ[k]
        ELSE Defaults[k]]

load_settings(files, env, environ) ==
    Settings(SettingsDict(files, SettingsFiles(files, env), EmptyMap), environ)

LS_Call ==
    /\ op = "load_settings" /\ ls_pc = "idle"
    /\ \E files \in [ConfigNames -> ConfigContents], env \in {"None", "staging"},
          environ \in Mappings :
         /\ ls_files' = files
         /\ ls_env' = env
         /\ ls_environ' = environ
         /\ ls_pc' = "called"
         /\ UNCHANGED <<log, ls_settings>>
         /\ UNCHANGED non_ls

LS_Return ==
    /\ ls_pc = "called"
    /\ ls_settings' = load_settings(ls_files, ls_env, ls_environ)
    /\ ls_pc' = "returned"
    /\ UNCHANGED <<log, ls_files, ls_env, ls_environ>>
    /\ UNCHANGED non_ls

----------------------------------------------------------------------------
(* Rational numbers <<numerator, denominator>>, denominator > 0 *)

Rat(n) == <<n, 1>>
RatLess(x, y) == x[1] * y[2] < y[1] * x[2]
RatSub(x, y) == <<x[1] * y[2] - y[1] * x[2], x[2] * y[2]>>
\* x / y for y > 0
RatDiv(x, y) == <<x[1] * y[2], x[2] * y[1]>>

----------------------------------------------------------------------------
(* analytics: compute_ctl_atl, evaluate_flags *)

\* Constants for CTL/ATL calculation (days)
CTL_DAYS == 42
ATL_DAYS == 7

\* the low-TSB threshold of evaluate_flags is minus this
LowTsbThreshold == 10

\* most rows of raw_activities that are explored
MaxRows == 2

\* A pandas DataFrame: its rows in order, and whether it has the columns
\* 'timestamp' and 'tss'.  pd.DataFrame() has neither and no row.
DataFrame(rows, columns) == [type |-> "DataFrame", rows |-> rows, columns |-> columns]
EmptyDataFrame == DataFrame(<<>>, FALSE)

ActivityRows == [timestamp : {1, 2}, tss : {0, 50, 100}]

\* The raw_activities table: the database cannot be read, or rows with or
\* without the two columns.
Tables ==
    {[readable |-> FALSE, rows |-> <<>>, columns |-> FALSE]}
    \cup {[readable |-> TRUE, rows |-> r, columns |-> c] :
             r \in SeqsUpTo(ActivityRows, MaxRows), c \in BOOLEAN}

\* storage.read_df: the rows of the query, an empty DataFrame on any error.
read_df(table) ==
    IF table.readable THEN DataFrame(table.rows, table.columns) ELSE EmptyDataFrame

\* The orders sort_values(by='timestamp') can leave the rows in: sorted by
\* timestamp, rows of equal timestamp in any order (the default sort kind
\* is not stable).
IndexPermutations(n) == {p \in [1..n -> 1..n] : \A i, j \in 1..n : i # j => p[i] # p[j]}
SortedOrders(rows) ==
    {[i \in 1..Len(rows) |-> rows[p[i]]] : p \in
        {q \in IndexPermutations(Len(rows)) :
            \A i, j \in 1..Len(rows) :
                i < j => rows[q[i]].timestamp <= rows[q[j]].timestamp}}

\* Series.ewm(span=span, adjust=False).mean(), last value:
\* y1 = x1, yt = (1 - a) * y(t-1) + a * xt with a = 2 / (span + 1).
RECURSIVE Ewm(_, _)
Ewm(xs, span) ==
    IF Len(xs) = 1 THEN Rat(xs[1])
    ELSE LET prev == Ewm(SubSeq(xs, 1, Len(xs) - 1), span)
         IN <<(span - 1) * prev[1] + 2 * xs[Len(xs)] * prev[2], (span + 1) * prev[2]>>

Metrics(ctl, atl, tsb) == [ctl |-> ctl, atl |-> atl, tsb |-> tsb]

\* compute_ctl_atl for one order of the sorted rows: the values of the
\* last row, latest_metrics = activities_df.iloc[-1].
CtlAtlOfFirstRow(sorted) ==
    Metrics(Rat(sorted[1].tss), Rat(sorted[1].tss), Rat(0))
CtlAtlOf(sorted) ==
    LET tss == [i \in 1..Len(sorted) |-> sorted[i].tss]
        ctl == Ewm(tss, CTL_DAYS)
        atl == Ewm(tss, ATL_DAYS)
    IN Metrics(ctl, atl, RatSub(ctl, atl))

\* compute_ctl_atl(activities_df): the dictionaries it can return.
compute_ctl_atl(df) ==
    IF df.rows = <<>> \/ ~df.columns
    THEN {Metrics(Rat(0), Rat(0), Rat(0))}
    ELSE {CtlAtlOf(s) : s \in SortedOrders(df.rows)}

\* The Python truth test "not x": bool() of a DataFrame raises ValueError
\* ("The truth value of a DataFrame is ambiguous").
PyNot(x) ==
    IF x.type = "DataFrame" THEN [raised |-> TRUE, value |-> FALSE]
    ELSE [raised |-> FALSE, value |-> (x.items = 0)]

\* An optional float: None, or a number.
None == [none |-> TRUE, val |-> Rat(0)]
Some(x) == [none |-> FALSE, val |-> x]

\* The thresholds evaluate_flags reads from settings.
Thresholds(ratio_max, zscore) == [ctl_atl_ratio_max |-> ratio_max, hrv_drop_zscore |-> zscore]
DefaultThresholds == Thresholds(<<13, 10>>, Rat(-1))

\* The three comparisons of evaluate_flags.
HighAtlCtlRatioNonStrict(ctl, atl, settings) ==
    RatLess(Rat(0), ctl) /\ ~RatLess(RatDiv(atl, ctl), settings.ctl_atl_ratio_max)
HighAtlCtlRatio(ctl, atl, settings) ==
    RatLess(Rat(0), ctl) /\ RatLess(settings.ctl_atl_ratio_max, RatDiv(atl, ctl))
LowHrvNonStrict(hrv_zscore, settings) ==
    ~hrv_zscore.none /\ ~RatLess(settings.hrv_drop_zscore, hrv_zscore.val)
LowHrv(hrv_zscore, settings) ==
    ~hrv_zscore.none /\ RatLess(hrv_zscore.val, settings.hrv_drop_zscore)
LowTsb(tsb) == RatLess(tsb, Rat(-LowTsbThreshold))

\* evaluate_flags(metrics, settings): a dict with the three flags, each
\* True or False.
EvaluateFlagsWithoutTsb(metrics, settings) ==
    [high_atl_ctl_ratio |-> HighAtlCtlRatio(metrics.ctl, metrics.atl, settings),
     low_hrv |-> LowHrv(metrics.hrv_zscore, settings)]
evaluate_flags(metrics, settings) ==
    [high_atl_ctl_ratio |-> HighAtlCtlRatio(metrics.ctl, metrics.atl, settings),
     low_hrv |-> LowHrv(metrics.hrv_zscore, settings),
     low_tsb |-> LowTsb(metrics.tsb)]

\* The Python truth value of a dict: it has a key.
DictTruthy(d) == DOMAIN d # {}

\* adapt_weekly's test "if flags:" that guards propose_revision and
\* patch_and_push.
RevisionBranch(flags) == DictTruthy(flags)

EmptyDict == [k \in {} |-> FALSE]

\* The metrics and thresholds evaluate_flags is applied to.
MetricsInputs ==
    [ctl : {Rat(0), Rat(10)}, atl : {Rat(0), Rat(13), Rat(14)},
     tsb : {Rat(-11), Rat(-10), Rat(0)},
     hrv_zscore : {None, Some(Rat(-2)), Some(Rat(-1)), Some(Rat(0))}]
ThresholdInputs == {DefaultThresholds, Thresholds(Rat(1), Rat(-2))}

EF_Call ==
    /\ op = "evaluate_flags" /\ ef_pc = "idle"
    /\ \E metrics \in MetricsInputs, settings \in ThresholdInputs :
         /\ ef_metrics' = metrics
         /\ ef_settings' = settings
         /\ ef_pc' = "called"
         /\ UNCHANGED <<log, ef_flags>>
         /\ UNCHANGED non_ef

EF_Return ==
    /\ ef_pc = "called"
    /\ ef_flags' = evaluate_flags(ef_metrics, ef_settings)
    /\ ef_pc' = "returned"
    /\ UNCHANGED <<log, ef_metrics, ef_settings>>
    /\ UNCHANGED non_ef

----------------------------------------------------------------------------
(* flows.adapt_weekly *)

\* print("Running adapt_weekly flow."), current_plan_yaml = ...
AW_Call ==
    /\ op = "adapt_weekly" /\ aw_pc = "idle"
    /\ aw_pc' = "read_df"
    /\ UNCHANGED <<log, db_table, aw_df, aw_metrics>>
    /\ UNCHANGED non_aw

\* df = task(storage.read_df)("SELECT * FROM raw_activities")
AW_ReadDf ==
    /\ aw_pc = "read_df"
    /\ aw_df' = read_df(db_table)
    /\ aw_pc' = "compute_ctl_atl"
    /\ UNCHANGED <<log, db_table, aw_metrics>>
    /\ UNCHANGED non_aw

\* ctl_atl_metrics = task(analytics.compute_ctl_atl)(df)
AW_ComputeCtlAtl ==
    /\ aw_pc = "compute_ctl_atl"
    /\ aw_metrics' \in compute_ctl_atl(aw_df)
    /\ aw_pc' = "compute_hrv_zscore"
    /\ UNCHANGED <<log, db_table, aw_df>>
    /\ UNCHANGED non_aw

\* hrv_zscore = task(analytics.compute_hrv_zscore)(df): the function starts
\* with "if not hrv_data:", and its argument here is the DataFrame, so the
\* call raises ValueError and the flow run ends with it.
AW_ComputeHrvZscore ==
    /\ aw_pc = "compute_hrv_zscore"
    /\ PyNot(aw_df).raised
    /\ aw_pc' = "raised"
    /\ UNCHANGED <<log, db_table, aw_df, aw_metrics>>
    /\ UNCHANGED non_aw

----------------------------------------------------------------------------
(* storage.write_df, called concurrently by two flow runs *)

\* The flows that write raw_activities.
Writers == {"sync_daily", "sync_catchup"}

\* The rows the two calls write.
WriterRows == {[timestamp |-> 1, tss |-> 50], [timestamp |-> 2, tss |-> 100]}

\* The table before the calls: missing, or with the two columns and no row
\* or one row.
WriterTables ==
    {[readable |-> FALSE, rows |-> <<>>, columns |-> FALSE]}
    \cup {[readable |-> TRUE, rows |-> r, columns |-> TRUE] : r \in SeqsUpTo(WriterRows, 1)}

\* "df.empty": an attribute of a DataFrame only; on any other value the
\* attribute access raises AttributeError.
DfEmpty(v) ==
    IF v.type = "DataFrame"
    THEN [raised |-> FALSE, value |-> (v.rows = <<>>)]
    ELSE [raised |-> TRUE, value |-> FALSE]

\* duckdb.connect(database=DATABASE_PATH, read_only=False) while the calls
\* in others hold a connection: a connection held by another process keeps
\* the lock of the database file and the connect raises; one held in the
\* same process shares its database instance and the connect succeeds.
ConnectOutcomes(others) == IF others = {} THEN {"connected"} ELSE {"connected", "raised"}

\* CREATE TABLE IF NOT EXISTS raw_activities AS SELECT * FROM df LIMIT 0
CreateTableIfNotExists(table) ==
    IF table.readable THEN table ELSE [readable |-> TRUE, rows |-> <<>>, columns |-> TRUE]

\* INSERT INTO raw_activities SELECT * FROM df
InsertInto(table, rows) == [table EXCEPT !.rows = table.rows \o rows]

\* write_df(df, table_name) to "with get_db_connection() as conn": an
\* empty DataFrame is skipped.
WD_Call ==
    /\ op = "write_df"
    /\ \E w \in Writers :
         /\ wd_pc[w] = "idle"
         /\ wd_pc' = [wd_pc EXCEPT ![w] =
                          IF DfEmpty(DataFrame(wd_df[w], TRUE)).value THEN "returned"
                          ELSE "connect"]
    /\ UNCHANGED <<log, wd_df, db_conns, db_table0, db_table>>
    /\ UNCHANGED non_wd

\* get_db_connection(): duckdb.connect.  When it raises, "except Exception"
\* of write_df prints the error and the call returns.
WD_Connect ==
    /\ \E w \in Writers :
         /\ wd_pc[w] = "connect"
         /\ \E outcome \in ConnectOutcomes(db_conns \ {w}) :
              IF outcome = "connected"
              THEN /\ db_conns' = db_conns \cup {w}
                   /\ wd_pc' = [wd_pc EXCEPT ![w] = "create"]
              ELSE /\ wd_pc' = [wd_pc EXCEPT ![w] = "returned"]
                   /\ UNCHANGED db_conns
    /\ UNCHANGED <<log, wd_df, db_table0, db_table>>
    /\ UNCHANGED non_wd

\* conn.execute("CREATE TABLE IF NOT EXISTS ...")
WD_Create ==
    /\ \E w \in Writers :
         /\ wd_pc[w] = "create"
         /\ db_table' = CreateTableIfNotExists(db_table)
         /\ wd_pc' = [wd_pc EXCEPT ![w] = "insert"]
    /\ UNCHANGED <<log, wd_df, db_conns, db_table0>>
    /\ UNCHANGED non_wd

\* conn.execute("INSERT INTO ...")
WD_Insert ==
    /\ \E w \in Writers :
         /\ wd_pc[w] = "insert"
         /\ db_table' = InsertInto(db_table, wd_df[w])
         /\ wd_pc' = [wd_pc EXCEPT ![w] = "close"]
    /\ UNCHANGED <<log, wd_df, db_conns, db_table0>>
    /\ UNCHANGED non_wd

\* The end of the with block: conn.close(), and the call returns.
WD_Close ==
    /\ \E w \in Writers :
         /\ wd_pc[w] = "close"
         /\ db_conns' = db_conns \ {w}
         /\ wd_pc' = [wd_pc EXCEPT ![w] = "returned"]
    /\ UNCHANGED <<log, wd_df, db_table0, db_table>>
    /\ UNCHANGED non_wd

----------------------------------------------------------------------------
(* flows.sync_daily *)

\* print("Running sync_daily flow.")
SD_Call ==
    /\ op = "sync_daily" /\ sd_pc = "idle"
    /\ sd_pc' = "get_activities"
    /\ UNCHANGED <<log, sd_tasks, rt_vars>>
    /\ UNCHANGED non_sd

\* activities = task(garmin_client.get_activities)(): the call enters the
\* retry wrapper, whose steps are RT_Attempt and RT_Last.
SD_GetActivities ==
    /\ sd_pc = "get_activities" /\ rt_pc = "idle"
    /\ sd_tasks' = Append(sd_tasks, "get_activities")
    /\ rt_fn' = "get_activities"
    /\ rt_args' = [tries |-> Tries, delay |-> Delay]
    /\ rt_tries' = Tries
    /\ rt_delay' = Delay
    /\ rt_pc' = "loop"
    /\ sd_pc' = "fetching"
    /\ UNCHANGED <<log, rt_outcomes, rt_sleeps, rt_result>>
    /\ UNCHANGED non_sd

\* An exception that leaves get_activities ends the flow run.
SD_GetActivitiesRaised ==
    /\ sd_pc = "fetching" /\ rt_pc = "raised"
    /\ sd_pc' = "raised"
    /\ UNCHANGED <<log, sd_tasks, rt_vars>>
    /\ UNCHANGED non_sd

\* task(storage.write_df)(activities, "raw_activities"): write_df starts
\* with "if df.empty:", and activities is never a DataFrame, so the call
\* raises AttributeError and the flow run ends with it.
SD_WriteDf ==
    /\ sd_pc = "fetching" /\ rt_pc = "returned"
    /\ DfEmpty(rt_result).raised
    /\ sd_tasks' = Append(sd_tasks, "write_df")
    /\ sd_pc' = "raised"
    /\ UNCHANGED <<log, rt_vars>>
    /\ UNCHANGED non_sd

----------------------------------------------------------------------------
(* analytics.compute_hrv_zscore *)

\* window_size = 30
WindowSize == 30

\* most HRV readings that are explored
MaxReadings == 31

\* The HRV readings: a baseline of 50 between a first and a last reading.
HrvValues == {40, 50, 60}

\* hrv_data: a list of n dictionaries, all with an 'hrv' key or none with
\* it; hrv holds the readings in order.
HrvData(has_hrv, hrv) ==
    [type |-> "list", items |-> Len(hrv), has_hrv |-> has_hrv, hrv |-> hrv]
HrvInputs ==
    {HrvData(has_hrv, <<>>) : has_hrv \in BOOLEAN}
    \cup {HrvData(has_hrv, [i \in 1..n |-> IF i = n THEN last
                                           ELSE IF i = 1 THEN first ELSE 50]) :
              has_hrv \in BOOLEAN, n \in 1..MaxReadings,
              first \in HrvValues, last \in HrvValues}

\* What compute_hrv_zscore returns: None, or a float that is NaN or has a
\* sign and a square (the z-score is a quotient by a square root).
NoZscore == [kind |-> "None", sign |-> 0, square |-> Rat(0)]
NanZscore == [kind |-> "nan", sign |-> 0, square |-> Rat(0)]
Zscore(sign, square) == [kind |-> "float", sign |-> sign, square |-> square]

RECURSIVE SumSeq(_)
SumSeq(xs) == IF xs = <<>> THEN 0 ELSE xs[1] + SumSeq(Tail(xs))

Sign(n) == IF n > 0 THEN 1 ELSE IF n < 0 THEN -1 ELSE 0

\* The last value of (hrv - rolling(window).mean()) / rolling(window).std()
\* for a series of at least window readings.  With S the sum of the window
\* the mean is S / window, window times the deviation of reading x from it
\* is window * x - S, and the sample variance is the sum of the squared
\* deviations over window - 1.  A variance of 0 makes the quotient 0 / 0.
RollingZscore(hrv, window) ==
    LET w == SubSeq(hrv, Len(hrv) - window + 1, Len(hrv))
        S == SumSeq(w)
        dev == [i \in 1..window |-> window * w[i] - S]
        squares == SumSeq([i \in 1..window |-> dev[i] * dev[i]])
    IN IF squares = 0 THEN NanZscore
       ELSE Zscore(Sign(dev[window]), <<(window - 1) * dev[window] * dev[window], squares>>)

\* "if len(hrv_df) < window_size:"
InsufficientDataOffByOne(n) == n <= WindowSize
InsufficientData(n) == n < WindowSize

\* compute_hrv_zscore(hrv_data)
compute_hrv_zscore(hrv_data) ==
    IF PyNot(hrv_data).value THEN NoZscore
    ELSE IF ~hrv_data.has_hrv THEN NoZscore
    ELSE IF InsufficientData(Len(hrv_data.hrv)) THEN NoZscore
    ELSE RollingZscore(hrv_data.hrv, WindowSize)

HZ_Call ==
    /\ op = "compute_hrv_zscore" /\ hz_pc = "idle"
    /\ \E hrv_data \in HrvInputs :
         /\ hz_data' = hrv_data
         /\ hz_pc' = "called"
         /\ UNCHANGED <<log, hz_result>>
         /\ UNCHANGED non_hz

HZ_Return ==
    /\ hz_pc = "called"
    /\ hz_result' = compute_hrv_zscore(hz_data)
    /\ hz_pc' = "returned"
    /\ UNCHANGED <<log, hz_data>>
    /\ UNCHANGED non_hz

----------------------------------------------------------------------------
(* The specification *)

EntryPoints ==
    {"patch_and_push", "garmin_client", "propose_revision", "load_settings",
     "evaluate_flags", "adapt_weekly", "retry", "write_df", "sync_daily",
     "compute_hrv_zscore"}

Init ==
    /\ op \in EntryPoints
    /\ log = <<>>
    /\ pp_pc = "idle"
    /\ pp_diff = EmptyString
    /\ fs_current \in (IF op = "patch_and_push" THEN InitialPlans ELSE {Absent})
    /\ fs_current0 = fs_current
    /\ fs_patched \in (IF op = "patch_and_push" THEN {Absent, YamlDump(EmptyDoc)} ELSE {Absent})
    /\ pp_plan = EmptyDoc
    /\ pp_patched = EmptyDoc
    /\ planner_calls = 0
    /\ rt_pc = "idle"
    /\ rt_fn = "get_activities"
    /\ rt_args = [tries |-> Tries, delay |-> Delay]
    /\ rt_tries = Tries
    /\ rt_delay = Delay
    /\ rt_outcomes = <<>>
    /\ rt_sleeps = <<>>
    /\ rt_result = PyNone
    /\ pr_pc = "idle"
    /\ pr_key = FALSE
    /\ pr_reply = [kind |-> "api_error", ops |-> <<>>]
    /\ pr_result = EmptyString
    /\ ls_pc = "idle"
    /\ ls_files = [f \in ConfigNames |-> ConfigFile("absent", EmptyMap)]
    /\ ls_environ = EmptyMap
    /\ ls_env = "None"
    /\ ls_settings = Defaults
    /\ aw_pc = "idle"
    /\ db_table \in (CASE op = "adapt_weekly" -> Tables
                        [] op = "write_df" -> WriterTables
                        [] OTHER -> {CHOOSE t \in Tables : ~t.readable})
    /\ aw_df = EmptyDataFrame
    /\ aw_metrics = Metrics(Rat(0), Rat(0), Rat(0))
    /\ ef_pc = "idle"
    /\ ef_metrics = CHOOSE m \in MetricsInputs : TRUE
    /\ ef_settings = DefaultThresholds
    /\ ef_flags = EmptyDict
    /\ wd_pc = [w \in Writers |-> "idle"]
    /\ wd_df \in (IF op = "write_df" THEN [Writers -> SeqsUpTo(WriterRows, MaxRows)]
                  ELSE {[w \in Writers |-> <<>>]})
    /\ db_conns = {}
    /\ db_table0 = db_table
    /\ sd_pc = "idle"
    /\ sd_tasks = <<>>
    /\ hz_pc = "idle"
    /\ hz_data = HrvData(FALSE, <<>>)
    /\ hz_result = NoZscore

Next ==
    \/ PP_Call
    \/ PP_Makedirs
    \/ PP_Load
    \/ PP_Apply
    \/ PP_Save
    \/ PP_Run
    \/ PP_Copy
    \/ RT_Call
    \/ RT_CallFunc
    \/ RT_Attempt
    \/ RT_Last
    \/ PR_Call
    \/ PR_Return
    \/ LS_Call
    \/ LS_Return
    \/ EF_Call
    \/ EF_Return
    \/ AW_Call
    \/ AW_ReadDf
    \/ AW_ComputeCtlAtl
    \/ AW_ComputeHrvZscore
    \/ WD_Call
    \/ WD_Connect
    \/ WD_Create
    \/ WD_Insert
    \/ WD_Close
    \/ SD_Call
    \/ SD_GetActivities
    \/ SD_GetActivitiesRaised
    \/ SD_WriteDf
    \/ HZ_Call
    \/ HZ_Return

Spec == Init /\ [][Next]_vars

----------------------------------------------------------------------------
(* Properties *)

InLog(e) == \E i \in 1..Len(log) : log[i] = e
Count(e) == Cardinality({i \in 1..Len(log) : log[i] = e})
\* every occurrence of e precedes every occurrence of f
Before(e, f) == \A i, j \in 1..Len(log) : log[i] = e /\ log[j] = f => i < j

NoFlagRaised(flags) == \A k \in DOMAIN flags : ~flags[k]

\* C1: when evaluate_flags finds every metric within its threshold, the test
\* that guards propose_revision and patch_and_push in adapt_weekly is false,
\* so that neither is invoked.
C1_NoFlagNoRevision ==
    (ef_pc = "returned" /\ NoFlagRaised(ef_flags)) => ~RevisionBranch(ef_flags)

PPFailureEvents ==
    {"planner_current_plan_load_error", "planner_diff_json_decode_error",
     "planner_patch_application_failed", "planner_patch_application_exception",
     "planner_patched_plan_save_error", "planner_subprocess_failed",
     "planner_garmin_planner_not_found", "planner_subprocess_exception"}

\* C2: when a step of patch_and_push failed (reading the current plan,
\* decoding the diff, applying the patch, writing patched_plan.yaml, running
\* garmin_planner), plans/current_plan.yaml holds at the return what it held
\* when the call started.
C2_FailureLeavesCurrentPlan ==
    (pp_pc = "returned" /\ \E e \in PPFailureEvents : InLog(e))
        => fs_current = fs_current0

\* C3: patch_and_push never lets an exception reach its caller.
C3_NeverRaises == pp_pc # "raised"

FailedFetch(cli) == cli \in {"not_found", "exception", "nonzero", "bad_json"}
ListFetch(cli) == cli \in {"json_list", "json_empty_list"}
AllFailed == \A i \in 1..Len(rt_outcomes) : FailedFetch(rt_outcomes[i])

\* C4: when the first k fetches fail and fetch k+1 yields a JSON list, for k
\* in 0..2, the fetch has run exactly k+1 times and the wrapper has returned
\* that list.
C4_SuccessAfterKFailures ==
    \A k \in 0..(Tries - 1) :
        (/\ rt_fn \in Fetchers
         /\ Len(rt_outcomes) > k
         /\ \A i \in 1..k : FailedFetch(rt_outcomes[i])
         /\ ListFetch(rt_outcomes[k + 1]))
        => /\ rt_pc = "returned"
           /\ Len(rt_outcomes) = k + 1
           /\ rt_result = JsonLoads(rt_outcomes[k + 1]).value

C6_ReturnsReplyOperations ==
    (pr_pc = "returned" /\ pr_key /\ pr_reply.kind = "revision" /\ pr_reply.ops # <<>>)
        => pr_result = JsonText(pr_reply.ops)

FailedProposal ==
    \/ ~pr_key
    \/ pr_reply.kind \in {"api_error", "not_json", "json_not_object", "no_revision",
                          "bad_operation"}

\* C7: on every failure (no API key, API error, reply that is not JSON, reply
\* that fails validation) propose_revision returns the empty string.
C7_FailureReturnsEmptyString ==
    (pr_pc = "returned" /\ FailedProposal) => pr_result = EmptyString

\* The flags evaluate_flags raises for the training-load metrics of the run
\* (no HRV z-score), under the default thresholds.
FlagsOfRun ==
    evaluate_flags([ctl |-> aw_metrics.ctl, atl |-> aw_metrics.atl, tsb |-> aw_metrics.tsb,
                    hrv_zscore |-> None], DefaultThresholds)

\* C8: a run of adapt_weekly whose metrics raise a flag has, when it ends,
\* invoked propose_revision exactly once and patch_and_push exactly once,
\* propose_revision first.
C8_FlagsLeadToRevisionAndPush ==
    (aw_pc \in {"returned", "raised"} /\ ~NoFlagRaised(FlagsOfRun))
        => /\ Count("llm_propose_revision_start") = 1
           /\ Count("planner_patch_and_push_start") = 1
           /\ Before("llm_propose_revision_start", "planner_patch_and_push_start")

PPLoadEvents ==
    {"planner_current_plan_loaded", "planner_current_plan_not_found",
     "planner_current_plan_load_error"}

\* C9: within one patch_and_push call the current plan is loaded, then the
\* patch applied, then patched_plan.yaml written, then garmin_planner run;
\* garmin_planner is run at most once, and only after the patch was applied
\* and patched_plan.yaml was written without error, with the patched plan in
\* it.
C9_LinearOrderOnePush ==
    /\ planner_calls <= 1
    /\ Count("planner_subprocess_command") = planner_calls
    /\ planner_calls = 1 =>
          /\ InLog("planner_patched_plan_saved")
          /\ ~InLog("planner_patched_plan_save_error")
          /\ Before("planner_patched_plan_saved", "planner_subprocess_command")
          /\ fs_patched = YamlDump(ApplyPatch(pp_plan, pp_diff.ops).doc)
    /\ InLog("planner_patched_plan_saved") =>
          /\ InLog("planner_patch_applied")
          /\ Before("planner_patch_applied", "planner_patched_plan_saved")
    /\ InLog("planner_patch_applied") =>
          /\ \E e \in PPLoadEvents : InLog(e)
          /\ \A e \in PPLoadEvents : Before(e, "planner_patch_applied")

\* C9 witness: a call that loaded a plan, applied a patch of two operations,
\* wrote the result and ran garmin_planner.
C9_Witness ==
    /\ pp_pc = "returned" /\ planner_calls = 1
    /\ InLog("planner_current_plan_loaded")
    /\ Len(pp_diff.ops) = 2
    /\ pp_patched # pp_plan

\* The settings that the YAML files load_settings read define.
YamlDefined == DOMAIN SettingsDict(ls_files, SettingsFiles(ls_files, ls_env), EmptyMap)

\* C10: a setting defined both in a YAML config file and in a
\* GARMIN_PIPELINE_ environment variable has, in the Settings returned, the
\* value of the environment variable.
C10_EnvironmentOverridesYaml ==
    ls_pc = "returned" =>
        \A k \in SettingNames :
            (k \in YamlDefined /\ k \in DOMAIN ls_environ) => ls_settings[k] = ls_environ[k]

\* the number of rows of a sequence that equal r
RowCount(rows, r) == Cardinality({i \in 1..Len(rows) : rows[i] = r})

\* C11: once two concurrent write_df calls on raw_activities have both
\* returned, the table holds the rows it held before and every row of both
\* DataFrames, each as often as it was written: no write is lost.
C11_ConcurrentWritesAllStored ==
    (op = "write_df" /\ \A w \in Writers : wd_pc[w] = "returned")
        => /\ db_table.readable \/ \A w \in Writers : wd_df[w] = <<>>
           /\ \A r \in WriterRows :
                 RowCount(db_table.rows, r)
                     = RowCount(db_table0.rows, r) + RowCount(wd_df["sync_daily"], r)
                       + RowCount(wd_df["sync_catchup"], r)

\* C12 as stated: the wait before the i-th retry is i times the base delay
\* (d, 2d, 3d, ...), and there is one wait after every attempt but the final
\* one.
C12_LinearBackoff ==
    /\ \A i \in 1..Len(rt_sleeps) : rt_sleeps[i] = i * rt_args.delay
    /\ Len(rt_sleeps) =
           IF rt_pc \in {"returned", "raised"} THEN Len(rt_outcomes) - 1
           ELSE Len(rt_outcomes)

\* C12, amended: the wait before the i-th retry is the base delay doubled
\* i - 1 times (d, 2d, 4d, ...); there are fewer waits than tries, one after
\* every attempt but the final one, after which the wrapper does not wait.
C12_ExponentialBackoff ==
    /\ \A i \in 1..Len(rt_sleeps) : rt_sleeps[i] = rt_args.delay * 2 ^ (i - 1)
    /\ Len(rt_sleeps) < rt_args.tries
    /\ Len(rt_sleeps) =
           IF rt_pc \in {"returned", "raised"} THEN Len(rt_outcomes) - 1
           ELSE Len(rt_outcomes)

\* C12 witness: a function decorated with four tries and a base delay of
\* five seconds returned at its fourth attempt, after three waits.
C12_Witness ==
    /\ rt_pc = "returned" /\ rt_fn = "func"
    /\ rt_args = [tries |-> 4, delay |-> Delay]
    /\ Len(rt_outcomes) = 4
    /\ Len(rt_sleeps) = 3

RECURSIVE EmaTail(_, _, _)
EmaTail(xs, span, i) ==
    IF i > Len(xs) THEN 0
    ELSE 2 * (span - 1) ^ (Len(xs) - i) * (span + 1) ^ (i - 2) * xs[i]
         + EmaTail(xs, span, i + 1)
EmaOf(xs, span) ==
    <<(span - 1) ^ (Len(xs) - 1) * xs[1] + EmaTail(xs, span, 2), (span + 1) ^ (Len(xs) - 1)>>

\* the run has computed its training-load metrics
MetricsComputed == aw_pc \in {"compute_hrv_zscore", "raised"}

\* C14: the dictionary compute_ctl_atl returned has tsb = ctl - atl; over
\* rows with both columns, ctl and atl are the 42-day and 7-day exponential
\* moving averages of tss at the last row in timestamp order, a row of the
\* latest timestamp; over no row or without the columns all three are 0.
C14_TsbIsCtlMinusAtl ==
    MetricsComputed =>
        LET ctl == aw_metrics.ctl
            atl == aw_metrics.atl
            tsb == aw_metrics.tsb
            rows == aw_df.rows
        IN /\ tsb[1] = ctl[1] * atl[2] - atl[1] * ctl[2]
           /\ tsb[2] = ctl[2] * atl[2]
           /\ (rows = <<>> \/ ~aw_df.columns) =>
                 ctl[1] = 0 /\ atl[1] = 0 /\ tsb[1] = 0
           /\ (rows # <<>> /\ aw_df.columns) =>
                 \E p \in IndexPermutations(Len(rows)) :
                     /\ \A i \in 1..Len(rows) :
                           rows[p[i]].timestamp <= rows[p[Len(rows)]].timestamp
                     /\ \A i, j \in 1..Len(rows) :
                           i < j => rows[p[i]].timestamp <= rows[p[j]].timestamp
                     /\ LET tss == [i \in 1..Len(rows) |-> rows[p[i]].tss]
                        IN ctl = EmaOf(tss, CTL_DAYS) /\ atl = EmaOf(tss, ATL_DAYS)

\* C14 witness: metrics of two rows with different stress scores that the
\* table holds latest first.
C14_Witness ==
    /\ MetricsComputed /\ aw_df.columns
    /\ Len(aw_df.rows) = 2
    /\ aw_df.rows[1].timestamp > aw_df.rows[2].timestamp
    /\ aw_df.rows[1].tss # aw_df.rows[2].tss

\* how often sync_daily has invoked function f as a task
TaskCount(f) == Cardinality({i \in 1..Len(sd_tasks) : sd_tasks[i] = f})

\* C15: a run of sync_daily that has ended has fetched the activities once
\* and the HRV data once, and has stored each of the two: it made two
\* write_df calls and did not end with an exception.
C15_FetchesAndStoresBoth ==
    sd_pc \in {"returned", "raised"} =>
        /\ TaskCount("get_activities") = 1
        /\ TaskCount("get_hrv") = 1
        /\ TaskCount("write_df") = 2
        /\ sd_pc = "returned"

\* C16: high_atl_ctl_ratio is True exactly when ctl > 0 and atl / ctl is
\* strictly greater than settings.ctl_atl_ratio_max; with ctl = 0 it is
\* False whatever atl is.
C16_HighRatioIffAboveMax ==
    ef_pc = "returned" =>
        LET ctl == ef_metrics.ctl
            atl == ef_metrics.atl
            ratio_max == ef_settings.ctl_atl_ratio_max
        IN /\ ctl[1] = 0 => ~ef_flags.high_atl_ctl_ratio
           /\ ef_flags.high_atl_ctl_ratio <=>
                 /\ ctl[1] > 0
                 /\ atl[1] * ctl[2] * ratio_max[2] > ratio_max[1] * atl[2] * ctl[1]

\* C16 witness: the ratio equals the maximum (atl 13, ctl 10, maximum 1.3)
\* and the flag is False.
C16_Witness ==
    /\ ef_pc = "returned"
    /\ ef_metrics.ctl = Rat(10) /\ ef_metrics.atl = Rat(13)
    /\ ef_settings = DefaultThresholds
    /\ ~ef_flags.high_atl_ctl_ratio

\* C17: low_hrv is True exactly when the metrics hold an HRV z-score (not
\* None) that is strictly below settings.hrv_drop_zscore; without a z-score
\* it is False.
C17_LowHrvIffBelowDrop ==
    ef_pc = "returned" =>
        LET hrv == ef_metrics.hrv_zscore
            hrv_drop == ef_settings.hrv_drop_zscore
        IN /\ hrv.none => ~ef_flags.low_hrv
           /\ ef_flags.low_hrv <=>
                 /\ ~hrv.none
                 /\ hrv.val[1] * hrv_drop[2] < hrv_drop[1] * hrv.val[2]

\* C17 witness: the z-score equals the threshold (-1) and the flag is
\* False.
C17_Witness ==
    /\ ef_pc = "returned"
    /\ ef_metrics.hrv_zscore = Some(Rat(-1))
    /\ ef_settings = DefaultThresholds
    /\ ~ef_flags.low_hrv

\* the last WindowSize readings of the call, their sum and the sum of their
\* squares
LastReadings == SubSeq(hz_data.hrv, Len(hz_data.hrv) - WindowSize + 1, Len(hz_data.hrv))
SumOfLast == SumSeq(LastReadings)
SumOfSquaresOfLast == SumSeq([i \in 1..WindowSize |-> LastReadings[i] * LastReadings[i]])

\* C18: compute_hrv_zscore returns None exactly when the input is empty, no
\* entry has an 'hrv' key, or there are fewer than 30 readings.  Otherwise,
\* with x the latest reading, m = S / 30 the mean of the last 30 readings
\* and v = (Q - S * S / 30) / 29 their sample variance (S their sum, Q the
\* sum of their squares), it returns (x - m) / sqrt(v): NaN when v = 0, and
\* else the number with the sign of x - m and the square (x - m)^2 / v.
C18_ZscoreOfLastThirty ==
    hz_pc = "returned" =>
        LET n == Len(hz_data.hrv)
            x == hz_data.hrv[n]
        IN /\ hz_result.kind = "None" <=> (n = 0 \/ ~hz_data.has_hrv \/ n < 30)
           /\ hz_result.kind # "None" =>
                 LET variance30 == WindowSize * SumOfSquaresOfLast - SumOfLast * SumOfLast
                     deviation30 == WindowSize * x - SumOfLast
                 IN /\ hz_result.kind = "nan" <=> variance30 = 0
                    /\ hz_result.kind = "float" =>
                          /\ hz_result.sign = Sign(deviation30)
                          /\ hz_result.square[1] = 29 * deviation30 * deviation30
                          /\ hz_result.square[2] = 30 * variance30

\* C18 witness: 31 readings whose first, outside the window, differs from
\* the baseline, and whose latest lies above the mean of the last 30.
C18_Witness ==
    /\ hz_pc = "returned"
    /\ Len(hz_data.hrv) = 31
    /\ hz_data.hrv[1] = 40 /\ hz_data.hrv[31] = 60
    /\ hz_result.kind = "float" /\ hz_result.sign = 1

\* The strings propose_revision returns when it fails: without an API key,
\* on an API error, and on a reply that is not JSON or fails validation.
FailureDiffs ==
    {propose_revision(FALSE, [kind |-> "revision", ops |-> <<>>]).value}
    \cup {propose_revision(TRUE, [kind |-> k, ops |-> <<>>]).value :
              k \in {"api_error", "not_json", "json_not_object", "no_revision"}}

\* C19: a patch_and_push call that is given what a failed propose_revision
\* returned, as adapt_weekly passes it on, does not invoke garmin_planner
\* and does not write plans/current_plan.yaml.
C19_FailedProposalIsNoOp ==
    (pp_pc \in {"returned", "raised"} /\ pp_diff \in FailureDiffs)
        => /\ planner_calls = 0
           /\ ~InLog("planner_local_cache_updated")
           /\ fs_current = fs_current0

====
